---- MODULE Spec2Model ----
(***************************************************************************)
(* Client-side resilient data cache of the content hub:                    *)
(*   - fetchDataWithCache (Phase-0/utils/cache.ts): stale-while-revalidate *)
(*     over localStorage with {value, expiry} entries;                     *)
(*   - the Jobs Board Cache Manager (jobs cache script): data + timestamp  *)
(*     items, TTL eviction at read time, forced refresh, the window.fetch  *)
(*     interceptor;                                                        *)
(*   - the region patch script's window.fetch wrapper and its cleaner.     *)
(* localStorage is one store shared by all of them.  Time is in ms.        *)
(***************************************************************************)
EXTENDS Integers, Sequences, FiniteSets, TLC

\* ---------------------------------------------------------------- bounds
MaxTicks == 1      \* clock advances per behaviour
MaxPending == 1    \* promises in flight at once
MaxOverlap == 2    \* promises in flight at once where refreshes overlap
MaxDepth == 2      \* window.fetch frames the call stack takes before it is exhausted
MaxRegions == 2    \* elements of a raw region array
MaxJobs == 2       \* records of a jobs list

\* ------------------------------------------------------ program constants
CACHE_KEY == "jobs-data"
CACHE_TIMESTAMP_KEY == "jobs-data-timestamp"
TTL_MS == 0
BACKGROUND_REFRESH_INTERVAL == 5 * 60 * 1000
\* the TTL the header of the jobs cache manager announces
DocumentedTtlMs == 10 * 60 * 1000
expiryHours == 24
ExpiryMs == expiryHours * 60 * 60 * 1000

Keys == {CACHE_KEY, CACHE_TIMESTAMP_KEY}
\* the key the React app reads through fetchDataWithCache that the jobs cache
\* script uses too (App.jsx line 45); its other keys behave alike and share
\* nothing
FdwcKeys == {CACHE_KEY}

\* the clock steps the model takes: 1 ms and one expiry period
TickSteps == {1, ExpiryMs + 1}

\* ------------------------------------------------------------ JS values
\* every value is a tagged record so that any two of them can be compared
JUndef == [t |-> "undefined"]
JNum(n) == [t |-> "number", n |-> n]
JStr(s) == [t |-> "string", s |-> s]
JArr(xs) == [t |-> "array", items |-> xs]
JObj == [t |-> "object"]
JNull == [t |-> "null"]
\* an object with a member `data`: the wrapped form of a REST answer
JData(v) == [t |-> "object", data |-> v]
Member_data(d) == IF d.t = "object" /\ "data" \in DOMAIN d THEN d.data ELSE JUndef
\* a record of the jobs list: an object with a region member (undefined when
\* the member is missing)
JJob(region) == [t |-> "job", region |-> region]
JEntry(v, e) == [t |-> "entry", value |-> v, expiry |-> e]

\* strings that matter character by character are sequences of characters
sUK == <<"U", "K">>
sEU == <<"E", "U">>
sUS == <<"U", "S", "/", "C", "a", "n", "a", "d", "a">>
sAsia == <<"A", "s", "i", "a">>
sAustralia == <<"A", "u", "s", "t", "r", "a", "l", "i", "a">>
sRemote == <<"R", "e", "m", "o", "t", "e">>
sOthers == <<"O", "t", "h", "e", "r", "s">>
sAll == <<"A", "l", "l">>
\* raw values that are no region name: an unknown place, names joined into
\* one string, a name with blanks around it
sMars == <<"M", "a", "r", "s">>
sLondonUKEU == <<"L", "o", "n", "d", "o", "n", "U", "K", "E", "U">>
sPaddedUK == <<" ", "U", "K", " ">>
FIXED_REGIONS == <<sUS, sUK, sEU, sAsia, sAustralia, sRemote, sOthers>>

\* ---------------------------------------------------------- localStorage
\* an item is null (absent), the text of a JSON value, or a text that is
\* no JSON at all
NoItem == [t |-> "null"]
Garbage == [t |-> "garbage"]
Text(j) == [t |-> "text", json |-> j]

\* JSON.stringify: undefined has no JSON text, setItem then stores the
\* string "undefined", which does not parse; an undefined member is dropped
JSONstringify(j) ==
  IF j = JUndef THEN Garbage ELSE Text(j)

ParseOk(item) == item.t = "text"
\* JSON.parse of an item that ParseOk (it throws on any other)
JSONparse(item) == item.json

\* parseInt(item, 10): the number at the head of the text, NaN otherwise
ParseIntOk(item) == item.t = "text" /\ item.json.t = "number"
parseInt(item) == item.json.n

\* member access on a parsed value: undefined when the member is missing
Member_value(d) == IF d.t = "entry" THEN d.value ELSE JUndef
HasExpiry(d) == d.t = "entry"

VARIABLES now, ticks, storage, pending, last, storedAt, isAdmin, layers,
          input, helper, timers, scripts

vars == <<now, ticks, storage, pending, last, storedAt, isAdmin, layers,
          input, helper, timers, scripts>>
\* aiJobsConfig.isAdmin, the order in which the scripts wrapped window.fetch
\* and the region scripts that have run, in the order they ran
config == <<isAdmin, layers, scripts>>
\* what page code holds and passes to the region helpers (a raw region
\* value or the jobs list), and the last helper call with its outcome
page == <<input, helper>>

Slots == DOMAIN pending
Idle == [kind |-> "idle"]
FreeSlots == {s \in Slots : pending[s] = Idle}
\* promises are kept in the lowest free slots
Slot(i) == CHOOSE s \in FreeSlots : Cardinality({u \in FreeSlots : u < s}) = i - 1

\* a request as the wrappers look at it: is the first argument a string, does
\* it contain the jobs endpoint fragment, does it carry ?t= or &t=, the
\* method and the cache option
Request(str, jobs, bust, method, cache) ==
  [str |-> str, jobs |-> jobs, bust |-> bust, method |-> method, cache |-> cache]
NoRequest == Request(FALSE, FALSE, FALSE, "", "")

\* what settles a promise: a Response, a plain value, or a rejection
Response(status, body) == [s |-> "response", status |-> status, body |-> body]
Value(v) == [s |-> "value", v |-> v]
Rejection == [s |-> "error"]
NoSignal == [s |-> "none"]

\* The last thing a caller (or the swallowing catch of a background job)
\* observed: the operation, the path it took, how it ended and with what,
\* whether the caller waited for the network, how many network calls the step
\* started, whether an item was stored under the key before the step, whether
\* the fetch behind it delivered ("ok") or not ("failed"), the request
\* (window.fetch only), the network's answer delivered in the step, the
\* interceptor continuations still waiting when it was delivered, and whether
\* the step left a rejected promise that has no rejection handler (the
\* browser then reports an unhandledrejection), and how the localStorage
\* writes of setCachedJobs ended in the step.
NoEvent ==
  [op |-> "none", key |-> "", path |-> "none", outcome |-> "none",
   result |-> NoSignal, awaited |-> FALSE, fetches |-> 0, had |-> FALSE,
   fetched |-> "none", req |-> NoRequest, net |-> NoSignal, cws |-> 0,
   unhandled |-> FALSE, wrote |-> "none"]

\* the event is the rejection of a background refresh
bgRejected(ev) ==
  \/ ev.op = "fdwcBg" /\ ev.outcome = "rejected"
  \/ ev.op = "bg" /\ ev.outcome = "throw"

Event(op, key, path, outcome, result, awaited, fetches) ==
  [op |-> op, key |-> key, path |-> path, outcome |-> outcome,
   result |-> result, awaited |-> awaited, fetches |-> fetches,
   had |-> storage[key] # NoItem,
   fetched |-> "none", req |-> NoRequest, net |-> NoSignal, cws |-> 0,
   unhandled |-> FALSE, wrote |-> "none"]

\* what the upstream behind a fetch function can deliver
Payloads == {JArr(<<JJob(JStr(sUK))>>), JObj}

\* --------------------------------------------------------------- clock
Tick(d) ==
  /\ ticks < MaxTicks
  /\ now' = now + d
  /\ ticks' = ticks + 1
  /\ UNCHANGED <<storage, pending, last, storedAt, config, page, timers>>

\* ------------------------------------------------- fetchDataWithCache
\* the expiry test taking the stored expiry for the time of the write
isExpired_fromWriteTime(d, t) == HasExpiry(d) /\ t > d.expiry + ExpiryMs

\* expiry test of cache.ts line 14; a missing expiry compares false
isExpired(d, t) == HasExpiry(d) /\ t > d.expiry

\* lines 9-37: the synchronous part, up to the return or the await
fetchDataWithCache(key) ==
  LET cached == storage[key] IN
  IF cached # NoItem
  THEN IF ~ParseOk(cached)
       THEN \* JSON.parse throws, the async function rejects
            /\ last' = Event("fdwc", key, "parse", "throw", Rejection, FALSE, 0)
            /\ UNCHANGED <<now, ticks, storage, pending, storedAt, config, page, timers>>
       ELSE LET data == JSONparse(cached) IN
            IF ~isExpired(data, now)
            THEN /\ last' = Event("fdwc", key, "fresh", "value",
                                  Value(Member_value(data)), FALSE, 0)
                 /\ UNCHANGED <<now, ticks, storage, pending, storedAt, config, page, timers>>
            ELSE /\ FreeSlots # {}
                 /\ pending' = [pending EXCEPT ![Slot(1)] =
                                  [kind |-> "fdwcBg", key |-> key]]
                 /\ last' = Event("fdwc", key, "stale", "value",
                                  Value(Member_value(data)), FALSE, 1)
                 /\ UNCHANGED <<now, ticks, storage, storedAt, config, page, timers>>
  ELSE /\ FreeSlots # {}
       /\ pending' = [pending EXCEPT ![Slot(1)] =
                        [kind |-> "fdwcCold", key |-> key, now0 |-> now]]
       /\ last' = Event("fdwc", key, "cold", "await", NoSignal, TRUE, 1)
       /\ UNCHANGED <<now, ticks, storage, storedAt, config, page, timers>>

\* the entry cache.ts writes: lines 26-29 and 38-41
fdwcEntry(v, from) == JSONstringify(JEntry(v, from + ExpiryMs))

\* lines 37-42: the cold-start fetch resolved; the expiry is computed from
\* the `now` taken before the await.  setItem can throw (quota): the READ
\* then rejects and nothing is stored.
\* net is what the fetch function got from its own request, where the model
\* follows the fetch function that far.
fdwcColdResolveFrom(s, v, writeOk, net) ==
  /\ pending[s].kind = "fdwcCold"
  /\ LET key == pending[s].key IN
     IF writeOk
     THEN /\ storage' = [storage EXCEPT ![key] = fdwcEntry(v, pending[s].now0)]
          /\ storedAt' = [storedAt EXCEPT ![key] = now]
          /\ last' = [Event("fdwcCold", key, "cold", "value", Value(v), TRUE, 0)
                     EXCEPT !.fetched = "ok", !.net = net]
     ELSE /\ last' = [Event("fdwcCold", key, "cold", "throw", Rejection, TRUE, 0)
                     EXCEPT !.fetched = "ok", !.net = net]
          /\ UNCHANGED <<storage, storedAt>>
  /\ pending' = [pending EXCEPT ![s] = Idle]
  /\ UNCHANGED <<now, ticks, config, page, timers>>

fdwcColdResolve(s, v, writeOk) == fdwcColdResolveFrom(s, v, writeOk, NoSignal)

\* a cold start that stores an empty result when its fetch rejects
fdwcColdReject_storesEmpty(s) ==
  /\ pending[s].kind = "fdwcCold"
  /\ last' = [Event("fdwcCold", pending[s].key, "cold", "throw", Rejection, TRUE, 0)
              EXCEPT !.fetched = "failed"]
  /\ pending' = [pending EXCEPT ![s] = Idle]
  /\ storage' = [storage EXCEPT ![pending[s].key] =
                   fdwcEntry(JArr(<<>>), pending[s].now0)]
  /\ UNCHANGED <<now, ticks, storedAt, config, page, timers>>

\* line 37: the awaited fetch rejected, nothing is stored
fdwcColdReject(s) ==
  /\ pending[s].kind = "fdwcCold"
  /\ last' = [Event("fdwcCold", pending[s].key, "cold", "throw", Rejection, TRUE, 0)
              EXCEPT !.fetched = "failed"]
  /\ pending' = [pending EXCEPT ![s] = Idle]
  /\ UNCHANGED <<now, ticks, storage, storedAt, config, page, timers>>

\* lines 25-31: the background fetch resolved; the expiry is computed from
\* a new Date() at the time of the write; a setItem that throws rejects the
\* promise then() returned, which has no handler
fdwcBgResolveFrom(s, v, writeOk, net) ==
  /\ pending[s].kind = "fdwcBg"
  /\ LET key == pending[s].key IN
     IF writeOk
     THEN /\ storage' = [storage EXCEPT ![key] = fdwcEntry(v, now)]
          /\ storedAt' = [storedAt EXCEPT ![key] = now]
          /\ last' = [Event("fdwcBg", key, "bg", "stored", Value(v), FALSE, 0)
                     EXCEPT !.fetched = "ok", !.net = net]
     ELSE /\ last' = [Event("fdwcBg", key, "bg", "writeFailed", Rejection, FALSE, 0)
                     EXCEPT !.fetched = "ok", !.unhandled = TRUE, !.net = net]
          /\ UNCHANGED <<storage, storedAt>>
  /\ pending' = [pending EXCEPT ![s] = Idle]
  /\ UNCHANGED <<now, ticks, config, page, timers>>

fdwcBgResolve(s, v, writeOk) == fdwcBgResolveFrom(s, v, writeOk, NoSignal)

\* a failed background fetch that drops the entry it could not refresh
fdwcBgReject_evicts(s) ==
  /\ pending[s].kind = "fdwcBg"
  /\ last' = [Event("fdwcBg", pending[s].key, "bg", "rejected", Rejection, FALSE, 0)
              EXCEPT !.fetched = "failed"]
  /\ pending' = [pending EXCEPT ![s] = Idle]
  /\ storage' = [storage EXCEPT ![pending[s].key] = NoItem]
  /\ UNCHANGED <<now, ticks, storedAt, config, page, timers>>

\* line 25: the background fetch rejected; the then-callback does not run and
\* the promise then() returned is rejected with no handler attached
fdwcBgReject(s) ==
  /\ pending[s].kind = "fdwcBg"
  /\ last' = [Event("fdwcBg", pending[s].key, "bg", "rejected", Rejection, FALSE, 0)
              EXCEPT !.fetched = "failed", !.unhandled = TRUE]
  /\ pending' = [pending EXCEPT ![s] = Idle]
  /\ UNCHANGED <<now, ticks, storage, storedAt, config, page, timers>>

\* ------------------------------------------------ region normalizer
\* String.prototype.includes on character sequences
includes(str, sub) ==
  \E i \in 0..(Len(str) - Len(sub)) : SubSeq(str, i + 1, i + Len(sub)) = sub

RECURSIVE trim(_)
trim(str) ==
  IF str = <<>> THEN str
  ELSE IF Head(str) = " " THEN trim(Tail(str))
  ELSE IF str[Len(str)] = " " THEN trim(SubSeq(str, 1, Len(str) - 1))
  ELSE str

InSeq(x, xs) == \E i \in 1..Len(xs) : xs[i] = x

\* the inner forEach looking for the text, not the name, among the names
\* already collected
RECURSIVE extractValid_testsText(_, _, _)
extractValid_testsText(trimmed, cleaned, i) ==
  IF i > Len(FIXED_REGIONS) THEN cleaned
  ELSE extractValid_testsText(trimmed,
                              IF includes(trimmed, FIXED_REGIONS[i])
                                 /\ ~InSeq(trimmed, cleaned)
                              THEN Append(cleaned, FIXED_REGIONS[i]) ELSE cleaned,
                              i + 1)

\* the inner forEach without the test for names already collected
RECURSIVE extractValid_noDedup(_, _, _)
extractValid_noDedup(trimmed, cleaned, i) ==
  IF i > Len(FIXED_REGIONS) THEN cleaned
  ELSE extractValid_noDedup(trimmed,
                            IF includes(trimmed, FIXED_REGIONS[i])
                            THEN Append(cleaned, FIXED_REGIONS[i]) ELSE cleaned,
                            i + 1)

\* the inner forEach of cleanRegionArray: every valid name the text includes
RECURSIVE extractValid(_, _, _)
extractValid(trimmed, cleaned, i) ==
  IF i > Len(FIXED_REGIONS) THEN cleaned
  ELSE LET valid == FIXED_REGIONS[i] IN
       extractValid(trimmed,
                    IF includes(trimmed, valid) /\ ~InSeq(valid, cleaned)
                    THEN Append(cleaned, valid) ELSE cleaned,
                    i + 1)

\* the decimal digits of a natural number
RECURSIVE digits(_)
digits(n) ==
  LET d == <<"0", "1", "2", "3", "4", "5", "6", "7", "8", "9">>[(n % 10) + 1]
  IN IF n < 10 THEN <<d>> ELSE Append(digits(n \div 10), d)

\* String(r), line 98: a string is itself; an array is its elements joined
\* by commas, null and undefined elements giving nothing
RECURSIVE String(_), join(_, _)
String(r) ==
  CASE r.t = "string" -> r.s
    [] r.t = "number" -> digits(r.n)
    [] r.t = "null" -> <<"n", "u", "l", "l">>
    [] r.t = "undefined" -> <<"u", "n", "d", "e", "f", "i", "n", "e", "d">>
    [] r.t = "array" -> join(r.items, 1)
    [] OTHER -> <<"[", "o", "b", "j", "e", "c", "t", " ", "O", "b", "j", "e", "c", "t", "]">>

join(items, i) ==
  IF i > Len(items) THEN <<>>
  ELSE (IF items[i].t \in {"null", "undefined"} THEN <<>> ELSE String(items[i]))
       \o (IF i < Len(items) THEN <<",">> ELSE <<>>)
       \o join(items, i + 1)

\* the outer forEach of cleanRegionArray, lines 97-112
RECURSIVE cleanFrom(_, _, _)
cleanFrom(regionArray, cleaned, i) ==
  IF i > Len(regionArray) THEN cleaned
  ELSE LET trimmed == trim(String(regionArray[i])) IN
       cleanFrom(regionArray,
                 IF InSeq(trimmed, FIXED_REGIONS)
                 THEN (IF InSeq(trimmed, cleaned) THEN cleaned
                       ELSE Append(cleaned, trimmed))
                 ELSE extractValid(trimmed, cleaned, 1),
                 i + 1)

\* an array of strings as a JS value
Strings(xs) == JArr([i \in 1..Len(xs) |-> JStr(xs[i])])

\* cleanRegionArray, lines 91-115
cleanRegionArray(regionArray) ==
  IF regionArray.t # "array" THEN Strings(<<sOthers>>)
  ELSE LET cleaned == cleanFrom(regionArray.items, <<>>, 1) IN
       IF Len(cleaned) > 0 THEN Strings(cleaned) ELSE Strings(<<sOthers>>)

\* normalizeAndCleanJobRegion, lines 118-125, on an object
normalizeAndCleanJobRegion(job) ==
  IF job.region # JUndef
  THEN [job EXCEPT !.region =
          cleanRegionArray(IF job.region.t = "array" THEN job.region
                           ELSE JArr(<<job.region>>))]
  ELSE [job EXCEPT !.region = Strings(<<sOthers>>)]

\* Object.assign({}, job): a copy of an object; null, undefined and numbers
\* leave the empty object
ObjectAssign(job) == IF job.t = "job" THEN job ELSE JJob(JUndef)

\* what a helper call ends with: Value(v) when it returns v, TypeError when
\* it throws
TypeError == [s |-> "TypeError"]

\* ToBoolean of a value in a condition or on the left of ||
truthy(v) ==
  ~ \/ v.t \in {"undefined", "null"}
    \/ v.t = "string" /\ v.s = <<>>
    \/ v.t = "number" /\ v.n = 0

\* objects take a property assignment; on anything else the assignment of
\* line 122 throws (the script runs in strict mode)
isObject(v) == v.t = "job"

\* AIRegionFilterHelper.normalizeRegion, lines 238-240
normalizeRegion(region) ==
  Value(cleanRegionArray(IF region.t = "array" THEN region
                         ELSE IF truthy(region) THEN JArr(<<region>>)
                         ELSE JArr(<<>>)))

\* AIRegionFilterHelper.normalizeJob, line 254: normalizeAndCleanJobRegion
\* called with the caller's record itself
normalizeJob(job) ==
  IF isObject(job) THEN Value(normalizeAndCleanJobRegion(job)) ELSE TypeError

\* AIRegionFilterHelper.normalizeJobs, lines 261-266
normalizeJobs(jobs) ==
  IF jobs.t # "array" THEN Value(jobs)
  ELSE IF \E i \in 1..Len(jobs.items) : normalizeJob(jobs.items[i]) = TypeError
       THEN TypeError
       ELSE Value(JArr([i \in 1..Len(jobs.items) |-> normalizeJob(jobs.items[i]).v]))

\* the region list the helpers of the patch script work on, lines 163, 181,
\* 217, 278: the record is copied first
cleanedRegion(job) == normalizeAndCleanJobRegion(ObjectAssign(job)).region.items

\* no filter selected: lines 158, 288 (and 53, 70 of the runtime fix)
noFilter(selectedRegion) ==
  ~truthy(selectedRegion) \/ selectedRegion = JStr(sAll)

\* AIRegionFilterHelper.matchesRegion, lines 156-167
matchesRegion(job, selectedRegion) ==
  IF noFilter(selectedRegion) THEN TRUE
  ELSE InSeq(selectedRegion, cleanedRegion(job))

\* the Set the loops of lines 180-191 and 277-282 fill
RECURSIVE regionsFound(_, _, _)
regionsFound(jobs, regions, i) ==
  IF i > Len(jobs) THEN regions
  ELSE regionsFound(jobs,
                    regions \cup {r \in {cleanedRegion(jobs[i])[k] :
                                            k \in 1..Len(cleanedRegion(jobs[i]))} :
                                     r.t = "string" /\ InSeq(r.s, FIXED_REGIONS)},
                    i + 1)

\* FIXED_REGIONS.filter(r => found.includes(r)), lines 198 and 283
inFixedOrder(found) ==
  Strings(SelectSeq(FIXED_REGIONS, LAMBDA r : JStr(r) \in found))

\* AIRegionFilterHelper.getUniqueRegions of the patch script, lines 176-199
getUniqueRegions(jobs) ==
  Value(inFixedOrder(IF jobs.t = "array" THEN regionsFound(jobs.items, {}, 1) ELSE {}))

\* AIRegionFilterHelper.getFlattenedUniqueRegions, lines 270-284
getFlattenedUniqueRegions(jobs) ==
  IF jobs.t # "array" THEN Value(Strings(FIXED_REGIONS))
  ELSE Value(inFixedOrder(regionsFound(jobs.items, {}, 1)))

\* counts as an object: one member per name of FIXED_REGIONS
ZeroCounts == [r \in {FIXED_REGIONS[i] : i \in 1..Len(FIXED_REGIONS)} |-> 0]

\* the inner forEach of the counters: +1 for every element that is a fixed name
RECURSIVE countRegions(_, _, _)
countRegions(regions, counts, k) ==
  IF k > Len(regions) THEN counts
  ELSE countRegions(regions,
                    IF regions[k].t = "string" /\ InSeq(regions[k].s, FIXED_REGIONS)
                    THEN [counts EXCEPT ![regions[k].s] = @ + 1]
                    ELSE counts,
                    k + 1)

RECURSIVE countCleaned(_, _, _)
countCleaned(jobs, counts, i) ==
  IF i > Len(jobs) THEN counts
  ELSE countCleaned(jobs, countRegions(cleanedRegion(jobs[i]), counts, 1), i + 1)

\* AIRegionFilterHelper.getRegionCounts of the patch script, lines 207-231
getRegionCounts(jobs) ==
  Value(IF jobs.t = "array" THEN countCleaned(jobs.items, ZeroCounts, 1) ELSE ZeroCounts)

\* ------------------------------- runtime fix and React filter fix scripts
\* ensureRegionArray, runtime fix lines 17-22 (filter fix lines 18-23): exact
\* names are kept as they come, nothing is added to an array left empty
ensureRegionArray(region) ==
  IF region.t = "array"
  THEN JArr(SelectSeq(region.items,
                      LAMBDA r : r.t = "string" /\ InSeq(r.s, FIXED_REGIONS)))
  ELSE IF truthy(region) /\ region.t = "string" /\ InSeq(region.s, FIXED_REGIONS)
       THEN JArr(<<region>>)
       ELSE Strings(<<sOthers>>)

\* j.region on a record: a TypeError on null and undefined, undefined on a
\* record without the member
hasMembers(j) == j.t \notin {"null", "undefined"}
Member_region(j) == IF j.t = "job" THEN j.region ELSE JUndef

\* ensureRegionArray(j.region || ['Others']), lines 42, 63, 80, 100
ensuredRegion(j) ==
  ensureRegionArray(IF truthy(Member_region(j)) THEN Member_region(j)
                    ELSE Strings(<<sOthers>>)).items

\* the callbacks of the two scripts read j.region of every record
readsAll(jobs) == \A i \in 1..Len(jobs) : hasMembers(jobs[i])

\* [...new Set(jobs.flatMap(...))].filter(...), runtime fix lines 41-47
ensuredFound(jobs) ==
  {r \in UNION {{ensuredRegion(jobs[i])[k] : k \in 1..Len(ensuredRegion(jobs[i]))} :
                 i \in 1..Len(jobs)} : InSeq(r.s, FIXED_REGIONS)}

\* AIRegionFilterHelper.getUniqueRegions of the runtime fix, lines 35-49
\* (AIRegionFilterFix.getUniqueRegions, filter fix lines 72-88, is the same)
getUniqueRegions_runtimeFix(jobs) ==
  IF jobs.t # "array" THEN Value(Strings(FIXED_REGIONS))
  ELSE IF ~readsAll(jobs.items) THEN TypeError
  ELSE Value(inFixedOrder(ensuredFound(jobs.items)))

\* jobs.filter(j => ensureRegionArray(...).includes(selectedRegion))
filterEnsured(jobs, selectedRegion) ==
  IF jobs.t # "array" THEN Value(JArr(<<>>))
  ELSE IF ~readsAll(jobs.items) THEN TypeError
  ELSE Value(JArr(SelectSeq(jobs.items,
                            LAMBDA j : InSeq(selectedRegion, ensuredRegion(j)))))

\* AIRegionFilterHelper.filterJobs, runtime fix lines 52-66
filterJobs(jobs, selectedRegion) ==
  IF noFilter(selectedRegion)
  THEN Value(IF truthy(jobs) THEN jobs ELSE JArr(<<>>))
  ELSE filterEnsured(jobs, selectedRegion)

\* AIRegionFilterFix.filterJobsByRegion, filter fix lines 97-111
filterJobsByRegion(jobs, selectedRegion) ==
  IF noFilter(selectedRegion) THEN Value(jobs)
  ELSE filterEnsured(jobs, selectedRegion)

RECURSIVE countEnsured(_, _, _)
countEnsured(jobs, counts, i) ==
  IF i > Len(jobs) THEN counts
  ELSE countEnsured(jobs, countRegions(ensuredRegion(jobs[i]), counts, 1), i + 1)

\* AIRegionFilterHelper.getAllRegionCounts, runtime fix lines 86-109
getAllRegionCounts(jobs) ==
  IF jobs.t # "array" THEN Value(ZeroCounts)
  ELSE IF ~readsAll(jobs.items) THEN TypeError
  ELSE Value(countEnsured(jobs.items, ZeroCounts, 1))

\* AIRegionFilterFix.getRegionCounts, filter fix lines 119-142
getRegionCounts_filterFix(jobs) ==
  IF jobs.t # "array" THEN Value(ZeroCounts)
  ELSE IF ~readsAll(jobs.items) THEN TypeError
  ELSE Value(countEnsured(jobs.items, ZeroCounts, 1))

\* AIRegionFilterHelper.countJobsByRegion of the runtime fix, lines 69-83
countJobsByRegion_runtimeFix(jobs, selectedRegion) ==
  IF noFilter(selectedRegion)
  THEN Value(JNum(IF jobs.t = "array" THEN Len(jobs.items) ELSE 0))
  ELSE IF jobs.t # "array" THEN Value(JNum(0))
  ELSE IF ~readsAll(jobs.items) THEN TypeError
  ELSE Value(JNum(Len(SelectSeq(jobs.items,
                                LAMBDA j : InSeq(selectedRegion, ensuredRegion(j))))))

\* AIRegionFilterHelper.countJobsByRegion of the patch script, lines 287-301
countJobsByRegion(jobs, selectedRegion) ==
  IF noFilter(selectedRegion)
  THEN Value(IF truthy(jobs)
             THEN (IF jobs.t = "array" THEN JNum(Len(jobs.items)) ELSE JUndef)
             ELSE JNum(0))
  ELSE IF jobs.t # "array" THEN Value(JNum(0))
  ELSE Value(JNum(Len(SelectSeq(jobs.items,
                                LAMBDA j : InSeq(selectedRegion, cleanedRegion(j))))))

\* --------------------------------------------- window.AIRegionFilterHelper
\* the three scripts that provide region helpers: the patch script, the
\* runtime fix and the React filter fix
RegionScripts == {"patch", "runtimeFix", "filterFix"}

\* the members the patch script gives the object, lines 128-267, 270, 287
PatchMembers ==
  {"getFixedRegions", "getFlattenedRegions", "matchesRegion", "getUniqueRegions",
   "getRegionCounts", "normalizeRegion", "cleanRegionArray", "normalizeJob",
   "normalizeJobs", "getFlattenedUniqueRegions", "countJobsByRegion"}

\* the members the runtime fix sets, lines 35, 52, 69, 86, 112
RuntimeFixMembers ==
  {"getUniqueRegions", "filterJobs", "countJobsByRegion", "getAllRegionCounts",
   "getFixedRegions"}

\* the members of window.AIRegionFilterFix, filter fix lines 65-152
FilterFixMembers ==
  {"getUniqueRegions", "filterJobsByRegion", "getRegionCounts", "getFixedRegions"}

\* the helpers REACT_FILTER_FIX.md tells page code to call on the object
DocumentedHelpers ==
  {"getUniqueRegions", "filterJobs", "countJobsByRegion", "getAllRegionCounts",
   "getFlattenedUniqueRegions", "filterJobsByRegion", "getRegionCounts"}

Members == PatchMembers \cup RuntimeFixMembers \cup FilterFixMembers

\* an object as the script that set each member ("none": no such member)
NoObject == [m \in Members |-> "none"]

\* what a script does to window.AIRegionFilterHelper: the patch script
\* assigns a new object (line 128), the runtime fix keeps the object there
\* is and sets its members on it (line 32), the filter fix sets
\* window.AIRegionFilterFix and leaves the object alone
runScript(script, obj) ==
  IF script = "patch"
  THEN [m \in Members |-> IF m \in PatchMembers THEN "patch" ELSE "none"]
  ELSE IF script = "runtimeFix"
       THEN [m \in Members |-> IF m \in RuntimeFixMembers THEN "runtimeFix" ELSE obj[m]]
       ELSE obj

RECURSIVE objectAfter(_, _)
objectAfter(ran, i) ==
  IF i = 0 THEN NoObject ELSE runScript(ran[i], objectAfter(ran, i - 1))

\* window.AIRegionFilterHelper after the scripts that have run
AIRegionFilterHelper == objectAfter(scripts, Len(scripts))

\* window.AIRegionFilterFix
AIRegionFilterFix ==
  [m \in Members |-> IF InSeq("filterFix", scripts) /\ m \in FilterFixMembers
                      THEN "filterFix" ELSE "none"]

\* the function behind a member of the object, applied
apply(member, by, jobs, selectedRegion) ==
  CASE by = "none" -> TypeError
    [] member = "getUniqueRegions" /\ by = "patch" -> getUniqueRegions(jobs)
    [] member = "getUniqueRegions" /\ by # "patch" -> getUniqueRegions_runtimeFix(jobs)
    [] member = "getFlattenedUniqueRegions" -> getFlattenedUniqueRegions(jobs)
    [] member = "filterJobs" -> filterJobs(jobs, selectedRegion)
    [] member = "filterJobsByRegion" -> filterJobsByRegion(jobs, selectedRegion)
    [] member = "countJobsByRegion" /\ by = "patch" ->
         countJobsByRegion(jobs, selectedRegion)
    [] member = "countJobsByRegion" /\ by # "patch" ->
         countJobsByRegion_runtimeFix(jobs, selectedRegion)
    [] member = "getAllRegionCounts" -> getAllRegionCounts(jobs)
    [] member = "getRegionCounts" /\ by = "patch" -> getRegionCounts(jobs)
    [] member = "getRegionCounts" /\ by # "patch" -> getRegionCounts_filterFix(jobs)

\* ------------------------------------------- the REST endpoint's cleaner
\* array_values(array_unique(xs)): first occurrences, in order
RECURSIVE array_unique(_, _, _)
array_unique(xs, acc, i) ==
  IF i > Len(xs) THEN acc
  ELSE array_unique(xs, IF InSeq(xs[i], acc) THEN acc ELSE Append(acc, xs[i]), i + 1)

\* ai_in_society_fetch_all_opportunities, theme functions lines 720-750, on
\* the post meta: an array of strings or a string
cleaned_regions(raw_regions) ==
  LET kept == IF raw_regions.t = "array"
              THEN SelectSeq([i \in 1..Len(raw_regions.items) |->
                                String(raw_regions.items[i])],
                             LAMBDA r : InSeq(r, FIXED_REGIONS))
              ELSE IF raw_regions.t = "string"
              THEN SelectSeq(FIXED_REGIONS, LAMBDA valid : includes(raw_regions.s, valid))
              ELSE <<>>
  IN Strings(array_unique(IF kept = <<>> THEN <<sOthers>> ELSE kept, <<>>, 1))

\* lines 63-65 of the region wrapper: arrays are mapped, anything else is kept
normalizedData(data) ==
  IF data.t = "array"
  THEN JArr([i \in 1..Len(data.items) |->
               normalizeAndCleanJobRegion(ObjectAssign(data.items[i]))])
  ELSE data

\* ------------------------------------------------------------ requests
\* the request fetchJobsFromAPI issues, lines 73-79
JobsRequest(forceRefresh) ==
  Request(TRUE, TRUE, forceRefresh, "GET",
          IF forceRefresh THEN "no-cache" ELSE "default")

\* the requests page code issues: the jobs endpoint plainly, the jobs
\* endpoint with cache: 'no-cache' (adzunaService.ts line 9), a POST to it,
\* another endpoint, and the jobs endpoint given as a Request object
Requests ==
  {Request(TRUE, TRUE, FALSE, "GET", "default"),
   Request(TRUE, TRUE, FALSE, "GET", "no-cache"),
   Request(TRUE, TRUE, FALSE, "POST", "default"),
   Request(TRUE, FALSE, FALSE, "GET", "default"),
   Request(FALSE, TRUE, FALSE, "GET", "default")}

ResponseOk(sig) == sig.status >= 200 /\ sig.status <= 299

\* what the network can answer to a request
Outcomes ==
  {Response(200, Text(p)) : p \in Payloads} \cup {Response(500, Garbage), Rejection}

\* how the localStorage writes of a step can end: both done, the first
\* setItem throws, or the second one does
WriteOutcomes == {"ok", "failData", "failTimestamp"}

\* what fetch can give fetchAdzunaJobs: also the wrapped form, and a body
\* that is not JSON
AdzunaOutcomes ==
  Outcomes \cup {Response(200, Text(JData(JArr(<<JJob(JStr(sEU))>>)))),
                 Response(200, Garbage)}

\* fetchAdzunaJobs, adzunaService.ts lines 7-57, from what its fetch settles
\* with: the promise always resolves, with [] whenever the request failed
fetchAdzunaJobs(sig) ==
  IF sig.s = "error" THEN JArr(<<>>)
  ELSE IF ~ResponseOk(sig) THEN JArr(<<>>)
  ELSE IF ~ParseOk(sig.body) THEN JArr(<<>>)
  ELSE LET responseData == JSONparse(sig.body) IN
       IF responseData.t = "array" THEN responseData
       ELSE IF Member_data(responseData).t = "array" THEN Member_data(responseData)
       ELSE JArr(<<>>)

\* loadData, App.jsx line 45: the fetch function is fetchAdzunaJobs; its
\* request settles and the awaiting fetchDataWithCache goes on
adzunaCold(s, sig, writeOk) ==
  fdwcColdResolveFrom(s, fetchAdzunaJobs(sig), writeOk, sig)

\* the same for the background refresh of cache.ts line 25
adzunaBg(s, sig, writeOk) ==
  fdwcBgResolveFrom(s, fetchAdzunaJobs(sig), writeOk, sig)

Res(st, ops, ev) == [st |-> st, ops |-> ops, ev |-> ev]

\* ------------------------------------------------- jobs cache manager
\* getCachedJobs with the entry already expired at age TTL_MS
getCachedJobs_expiresAtTtl(st) ==
  LET cached == st[CACHE_KEY]
      timestamp == st[CACHE_TIMESTAMP_KEY]
      miss == [hit |-> FALSE, cached |-> JUndef, st |-> st]
  IN IF cached = NoItem \/ timestamp = NoItem THEN miss
     ELSE IF ParseIntOk(timestamp) /\ now - parseInt(timestamp) >= TTL_MS
          THEN [miss EXCEPT !.st = [st EXCEPT ![CACHE_KEY] = NoItem,
                                              ![CACHE_TIMESTAMP_KEY] = NoItem]]
          ELSE IF ParseOk(cached)
               THEN [hit |-> TRUE, cached |-> JSONparse(cached), st |-> st]
               ELSE miss

\* getCachedJobs, lines 36-58: the data read (or null) and the storage after
getCachedJobs(st) ==
  LET cached == st[CACHE_KEY]
      timestamp == st[CACHE_TIMESTAMP_KEY]
      miss == [hit |-> FALSE, cached |-> JUndef, st |-> st]
  IN IF cached = NoItem \/ timestamp = NoItem THEN miss
     ELSE IF ParseIntOk(timestamp) /\ now - parseInt(timestamp) > TTL_MS
          THEN [miss EXCEPT !.st = [st EXCEPT ![CACHE_KEY] = NoItem,
                                              ![CACHE_TIMESTAMP_KEY] = NoItem]]
          ELSE IF ParseOk(cached)
               THEN [hit |-> TRUE, cached |-> JSONparse(cached), st |-> st]
               ELSE miss

\* setCachedJobs with the two setItem calls in the other order
setCachedJobs_timestampFirst(st, data, w) ==
  IF w = "failData" THEN st
  ELSE IF w = "failTimestamp"
       THEN [st EXCEPT ![CACHE_TIMESTAMP_KEY] = Text(JNum(now))]
  ELSE [st EXCEPT ![CACHE_KEY] = JSONstringify(data),
                  ![CACHE_TIMESTAMP_KEY] = Text(JNum(now))]

\* setCachedJobs leaving alone an entry that another refresh stored
setCachedJobs_keepsStored(st, data, w) ==
  IF w = "failData" \/ st[CACHE_KEY] # NoItem THEN st
  ELSE IF w = "failTimestamp" THEN [st EXCEPT ![CACHE_KEY] = JSONstringify(data)]
  ELSE [st EXCEPT ![CACHE_KEY] = JSONstringify(data),
                  ![CACHE_TIMESTAMP_KEY] = Text(JNum(now))]

\* setCachedJobs, lines 61-68: two setItem calls in one try block
setCachedJobs(st, data, w) ==
  IF w = "failData" THEN st
  ELSE IF w = "failTimestamp" THEN [st EXCEPT ![CACHE_KEY] = JSONstringify(data)]
  ELSE [st EXCEPT ![CACHE_KEY] = JSONstringify(data),
                  ![CACHE_TIMESTAMP_KEY] = Text(JNum(now))]

\* fetchJobsFromAPI lines 81-85: does the response yield data
apiDelivers(sig) == sig.s = "response" /\ ResponseOk(sig) /\ ParseOk(sig.body)

\* the test of line 110 without its `|| isAdmin`
backgroundRefreshDue_ageOnly(st) ==
  /\ ParseIntOk(st[CACHE_TIMESTAMP_KEY])
  /\ now - parseInt(st[CACHE_TIMESTAMP_KEY]) > BACKGROUND_REFRESH_INTERVAL

\* fetchJobs lines 106-110: is a background refresh started on a hit
backgroundRefreshDue(st) ==
  \/ /\ ParseIntOk(st[CACHE_TIMESTAMP_KEY])
     /\ now - parseInt(st[CACHE_TIMESTAMP_KEY]) > BACKGROUND_REFRESH_INTERVAL
  \/ isAdmin

\* the interceptor's tests, lines 218-229
isJobsEndpoint(req) == req.str /\ req.jobs
\* the interceptor's test without the method
intercepts_anyMethod(req) == isJobsEndpoint(req)
intercepts(req) == req.method = "GET" /\ isJobsEndpoint(req)
forceRefreshOf(req) == req.bust \/ req.cache = "no-cache" \/ req.cache = "reload"

\* a synthetic Response that marks cached data as not modified
syntheticResponse_notModified(data) == Response(304, JSONstringify(data))

\* the Response the interceptor builds from the cache layer's data, lines 234-247
syntheticResponse(data) == Response(200, JSONstringify(data))

\* the Response the region wrapper builds, lines 61-76: the body normalized
\* when it parses, the response itself when it does not
\* the region wrapper always ending in its catch (lines 73-76), which hands
\* back the response as it came
regionResponse_returnsOriginal(sig) == sig

regionResponse(sig) ==
  IF ParseOk(sig.body)
  THEN Response(sig.status, JSONstringify(normalizedData(JSONparse(sig.body))))
  ELSE sig

EndEvent(fr, sig, aw) ==
  [Event(fr.op, fr.key, fr.path,
         IF sig.s = "error" THEN "throw" ELSE "value", sig, aw, 0)
   EXCEPT !.req = fr.req]

\* A call runs synchronously down to the native fetch (or to the exhaustion
\* of the stack), leaving a chain of continuations K, innermost first:
\*   api      the rest of fetchJobsFromAPI after its await
\*   cw       the then/catch of the cache interceptor
\*   rw       the then/catch of the region wrapper
\*   end      the caller, or the catch that swallows a background failure
\* d is the number of further window.fetch frames the stack can take, w how
\* the localStorage writes of the step end.
RECURSIVE settle(_, _, _, _, _), windowFetch(_, _, _, _, _)
RECURSIVE fetchJobsFromAPI(_, _, _, _), fetchJobs(_, _, _, _)

\* an interceptor whose catch rethrows instead of falling back
originalFetchApply_rethrows(fr, rest, st) == settle(Rejection, rest, st, TRUE, "ok")

\* lines 248-252: the catch of the interceptor calls originalFetch with the
\* arguments of its own call; originalFetch is the next layer down
originalFetchApply(fr, rest, st) == windowFetch(fr.layer + 1, fr.req, rest, st, 0)

\* a promise settles with sig; the continuations run as microtasks
settle(sig, K, st, aw, w) ==
  LET fr == Head(K)
      rest == Tail(K)
  IN CASE fr.f = "end" -> Res(st, <<>>, EndEvent(fr, sig, aw))
       [] fr.f = "api" ->
            \* lines 81-91
            IF apiDelivers(sig)
            THEN settle(Value(JSONparse(sig.body)), rest,
                        setCachedJobs(st, JSONparse(sig.body), w), aw, w)
            ELSE settle(Rejection, rest, st, aw, w)
       [] fr.f = "cw" ->
            \* lines 232-252
            IF sig.s = "value"
            THEN settle(syntheticResponse(sig.v), rest, st, aw, w)
            ELSE originalFetchApply(fr, rest, st)
       [] fr.f = "rw" ->
            \* region wrapper lines 59-80
            IF sig.s = "response"
            THEN settle(regionResponse(sig), rest, st, aw, w)
            ELSE settle(sig, rest, st, aw, w)

\* layer i of window.fetch; below the last wrapper is the native fetch
windowFetch(i, req, K, st, d) ==
  IF i > Len(layers)
  THEN Res(st, <<[kind |-> "net", req |-> req, frames |-> K]>>, NoEvent)
  ELSE IF layers[i] = "region"
       THEN windowFetch(i + 1, req,
                        IF isJobsEndpoint(req) THEN <<[f |-> "rw"]>> \o K ELSE K,
                        st, d)
       ELSE IF intercepts(req)
            THEN fetchJobs(forceRefreshOf(req),
                           <<[f |-> "cw", req |-> req, layer |-> i]>> \o K, st, d)
            ELSE windowFetch(i + 1, req, K, st, d)

\* fetchJobsFromAPI lines 71-80: `fetch` is whatever window.fetch is now; with
\* no stack left the call throws a RangeError, which line 90 rethrows
fetchJobsFromAPI(forceRefresh, K, st, d) ==
  IF d = 0
  THEN settle(Rejection, K, st, FALSE, "ok")
  ELSE windowFetch(1, JobsRequest(forceRefresh), <<[f |-> "api"]>> \o K, st, d - 1)

\* fetchJobs lines 95-121 (fetchJobsWithIndicator only adds the indicator)
fetchJobs(forceRefresh, K, st, d) ==
  IF forceRefresh
  THEN fetchJobsFromAPI(TRUE, K, st, d)
  ELSE LET g == getCachedJobs(st) IN
       IF g.hit
       THEN LET bg == IF backgroundRefreshDue(g.st)
                      THEN fetchJobsFromAPI(TRUE,
                             <<[f |-> "end", op |-> "bg", key |-> CACHE_KEY,
                                path |-> "bg", req |-> NoRequest]>>, g.st, d)
                      ELSE Res(g.st, <<>>, NoEvent)
                main == settle(Value(g.cached), K, bg.st, FALSE, "ok")
            IN Res(main.st, bg.ops \o main.ops, main.ev)
       ELSE fetchJobsFromAPI(FALSE, K, g.st, d)

\* the path a READ of the jobs key takes
pathOf(forceRefresh) ==
  IF forceRefresh THEN "force"
  ELSE IF getCachedJobs(storage).hit THEN "hit" ELSE "miss"

\* the state after a handler that left the promises r.ops in flight
Started(run, ev) ==
  \E r \in {run} :
    /\ Len(r.ops) <= Cardinality(FreeSlots)
    /\ pending' = [s \in Slots |->
                     IF \E i \in 1..Len(r.ops) : s = Slot(i)
                     THEN r.ops[CHOOSE i \in 1..Len(r.ops) : s = Slot(i)]
                     ELSE pending[s]]
    /\ storage' = r.st
    /\ last' = [(IF r.ev = NoEvent THEN ev ELSE r.ev) EXCEPT !.fetches = Len(r.ops)]
    /\ UNCHANGED <<now, ticks, storedAt, config, page>>

\* AIJobsCacheManager.fetchJobs(forceRefresh), line 205
managerFetchJobs(forceRefresh) ==
  LET path == pathOf(forceRefresh)
      r == fetchJobs(forceRefresh,
                     <<[f |-> "end", op |-> "fetchJobs", key |-> CACHE_KEY,
                        path |-> path, req |-> NoRequest]>>,
                     storage, MaxDepth)
  IN /\ Started(r, Event("fetchJobs", CACHE_KEY, path, "await", NoSignal, TRUE, 0))
     /\ UNCHANGED timers

\* lines 259-266: the interval timer of an administrator's page is due and
\* its callback runs fetchJobsWithIndicator(true), swallowing a failure;
\* setInterval then sets the timer again, an interval from now
autoRefresh ==
  \E due \in timers :
    /\ now >= due
    /\ timers' = (timers \ {due}) \cup {now + BACKGROUND_REFRESH_INTERVAL}
    /\ Started(fetchJobs(TRUE,
                         <<[f |-> "end", op |-> "timer", key |-> CACHE_KEY,
                            path |-> "force", req |-> NoRequest]>>,
                         storage, MaxDepth),
               Event("timer", CACHE_KEY, "force", "await", NoSignal, FALSE, 0))

\* AIJobsCacheManager.forceRefresh(), line 210: the same call with true
forceRefresh == managerFetchJobs(TRUE)

\* AIJobsCacheManager.clearCache, lines 206-209
clearCache ==
  /\ storage' = [storage EXCEPT ![CACHE_KEY] = NoItem,
                                ![CACHE_TIMESTAMP_KEY] = NoItem]
  /\ last' = Event("clearCache", CACHE_KEY, "clear", "value", Value(JUndef), FALSE, 0)
  /\ UNCHANGED <<now, ticks, pending, storedAt, config, page, timers>>

\* page code calls window.fetch(url, options), lines 217-257; the call itself
\* takes one of the frames the stack has
callFetch(req) ==
  LET path == IF intercepts(req) THEN pathOf(forceRefreshOf(req)) ELSE "pass"
      r == windowFetch(1, req,
                       <<[f |-> "end", op |-> "fetch", key |-> CACHE_KEY,
                          path |-> path, req |-> req]>>,
                       storage, MaxDepth - 1)
  IN /\ Started(r, [Event("fetch", CACHE_KEY, path, "await", NoSignal, TRUE, 0)
                    EXCEPT !.req = req])
     /\ UNCHANGED timers

\* whether the answer of the network yields data
delivered(sig) == IF apiDelivers(sig) THEN "ok" ELSE "failed"

\* the interceptor continuations in a chain
cwCount(K) == Cardinality({i \in 1..Len(K) : K[i].f = "cw"})

\* the network answers the native request in slot s; a write can only fail
\* in a step that writes
networkResponds(s, sig, w) ==
  /\ pending[s].kind = "net"
  /\ \/ w = "ok"
     \/ apiDelivers(sig) /\ \E i \in 1..Len(pending[s].frames) :
                               pending[s].frames[i].f = "api"
  /\ \E r \in {settle(sig, pending[s].frames, storage, TRUE, w)} :
     /\ pending' = [pending EXCEPT ![s] = IF r.ops = <<>> THEN Idle ELSE r.ops[1]]
     /\ storage' = r.st
     /\ last' = IF r.ev = NoEvent THEN last
                ELSE IF r.ev.op # "fetch"
                     THEN [r.ev EXCEPT !.fetched = delivered(sig), !.wrote = w]
                     ELSE [r.ev EXCEPT !.fetched = delivered(sig),
                                       !.wrote = w,
                                       !.net = sig,
                                       !.cws = cwCount(pending[s].frames)]
  /\ UNCHANGED <<now, ticks, storedAt, config, page, timers>>

\* ------------------------------------------------ calls of the helpers
Call(f, arg, selectedRegion, result) ==
  [f |-> f, arg |-> arg, selected |-> selectedRegion, result |-> result]
NoCall == Call("none", JUndef, JUndef, Value(JUndef))

\* the state the store, the clock and the promises are left in
cacheUntouched ==
  UNCHANGED <<now, ticks, storage, pending, last, storedAt, config, timers>>

\* a helper that returns an array can be fed its own result
resultOf(f) ==
  IF helper.f = f /\ helper.result.s = "value" THEN {helper.result.v} ELSE {}

\* page code calls cleanRegionArray(input), line 247
call_cleanRegionArray ==
  /\ helper' = Call("cleanRegionArray", input, JUndef, Value(cleanRegionArray(input)))
  /\ UNCHANGED input /\ cacheUntouched

\* page code calls normalizeRegion on the raw value or on what
\* normalizeRegion returned before
call_normalizeRegion ==
  /\ \E x \in {input} \cup resultOf("normalizeRegion") :
       helper' = Call("normalizeRegion", x, JUndef, normalizeRegion(x))
  /\ UNCHANGED input /\ cacheUntouched

\* page code calls normalizeJob on a record whose region is the raw value
call_normalizeJobOfRegion ==
  /\ helper' = Call("normalizeJob", JJob(input), JUndef, normalizeJob(JJob(input)))
  /\ UNCHANGED input /\ cacheUntouched

\* post meta as update_post_meta stores it: an array of strings or a string
isPostMeta(v) ==
  \/ v.t = "string"
  \/ v.t = "array" /\ \A i \in 1..Len(v.items) : v.items[i].t = "string"

\* the REST endpoint formats a post whose region meta is the raw value
call_cleaned_regions ==
  /\ isPostMeta(input)
  /\ helper' = Call("cleaned_regions", input, JUndef, Value(cleaned_regions(input)))
  /\ UNCHANGED input /\ cacheUntouched

\* sequences over S of length at most n, as arrays
Arrays(S, n) == {JArr(xs) : xs \in UNION {[1..k -> S] : k \in 0..n}}

RegionElements ==
  {JStr(sUK), JStr(sEU), JStr(sPaddedUK), JStr(sMars), JStr(sLondonUKEU),
   JNull, JNum(0), Strings(<<sUK, sEU>>)}

\* raw region values: arrays, strings (the empty one too), undefined, null,
\* a number, an object
RegionInputs ==
  Arrays(RegionElements, MaxRegions)
    \cup {JStr(sUK), JStr(sOthers), JStr(sPaddedUK), JStr(sMars), JStr(sLondonUKEU),
          JStr(<<>>), JUndef, JNull, JNum(0), JObj}


\* the records a jobs list is made of: one and two names, a name twice, an
\* empty array, names joined into one string, no region member, and null
Records ==
  {JJob(Strings(<<sUK>>)), JJob(Strings(<<sEU>>)), JJob(Strings(<<sEU, sUK>>)),
   JJob(Strings(<<sUK, sUK>>)), JJob(JArr(<<>>)), JJob(JStr(sLondonUKEU)),
   JJob(JUndef), JNull}

\* what page code passes as jobs: a list, or undefined before the data came
JobsInputs == Arrays(Records, MaxJobs) \cup {JUndef}

\* the lists page code has when the scripts are still loading
LoadInputs == Arrays(Records, MaxJobs - 1) \cup {JUndef}

\* the filter values of the dropdown, and no selection
Selections == {JStr(sAll), JStr(<<>>), JUndef, JStr(sUK), JStr(sEU), JStr(sOthers)}

\* jobs.map(normalizeAndCleanJobRegion) assigns job.region record by record:
\* the records before the first one that throws are already changed
assignedUpTo(jobs) ==
  JArr([i \in 1..Len(jobs.items) |->
          IF \A k \in 1..i : isObject(jobs.items[k])
          THEN normalizeAndCleanJobRegion(jobs.items[i])
          ELSE jobs.items[i]])

\* page code calls normalizeJobs(jobs); the records are changed in place
call_normalizeJobs ==
  /\ helper' = Call("normalizeJobs", input, JUndef, normalizeJobs(input))
  /\ input' = IF input.t = "array" THEN assignedUpTo(input) ELSE input
  /\ cacheUntouched

\* page code calls normalizeJob on record i of the list
call_normalizeJob(i) ==
  /\ input.t = "array" /\ i \in 1..Len(input.items)
  /\ helper' = Call("normalizeJob", input.items[i], JUndef, normalizeJob(input.items[i]))
  /\ input' = IF isObject(input.items[i])
               THEN [input EXCEPT !.items[i] = normalizeAndCleanJobRegion(@)]
               ELSE input
  /\ cacheUntouched

\* page code calls a helper that only reads the list
reads(f, selectedRegion, result) ==
  /\ helper' = Call(f, input, selectedRegion, result)
  /\ UNCHANGED input /\ cacheUntouched

call_getUniqueRegions == reads("getUniqueRegions", JUndef, getUniqueRegions(input))
call_getFlattenedUniqueRegions ==
  reads("getFlattenedUniqueRegions", JUndef, getFlattenedUniqueRegions(input))
call_getUniqueRegions_runtimeFix ==
  reads("getUniqueRegions_runtimeFix", JUndef, getUniqueRegions_runtimeFix(input))
call_getRegionCounts == reads("getRegionCounts", JUndef, getRegionCounts(input))
call_getAllRegionCounts == reads("getAllRegionCounts", JUndef, getAllRegionCounts(input))
call_getRegionCounts_filterFix ==
  reads("getRegionCounts_filterFix", JUndef, getRegionCounts_filterFix(input))
call_filterJobs(selectedRegion) ==
  reads("filterJobs", selectedRegion, filterJobs(input, selectedRegion))
call_filterJobsByRegion(selectedRegion) ==
  reads("filterJobsByRegion", selectedRegion, filterJobsByRegion(input, selectedRegion))

\* page code asks whether record i matches the filter
call_matchesRegion(i, selectedRegion) ==
  /\ input.t = "array" /\ i \in 1..Len(input.items)
  /\ helper' = Call("matchesRegion", input.items[i], selectedRegion,
                    Value(matchesRegion(input.items[i], selectedRegion)))
  /\ UNCHANGED input /\ cacheUntouched

\* the page loads one of the region scripts; the patch script also wraps
\* window.fetch (lines 52-85), outside whatever wrapped it before
loadScript(script) ==
  /\ ~InSeq(script, scripts)
  /\ scripts' = Append(scripts, script)
  /\ layers' = IF script = "patch" THEN <<"region">> \o layers ELSE layers
  /\ UNCHANGED <<now, ticks, storage, pending, last, storedAt, isAdmin, page, timers>>

\* page code calls window.AIRegionFilterHelper.<member>(jobs, selectedRegion)
\* as the documentation shows; a member that is not there is not a function
callHelper(member, selectedRegion) ==
  reads(member, selectedRegion,
        apply(member, AIRegionFilterHelper[member], input, selectedRegion))

\* page code calls window.AIRegionFilterFix.<member>(jobs, selectedRegion)
callFix(member, selectedRegion) ==
  /\ member \in FilterFixMembers \cap DocumentedHelpers
  /\ reads(member, selectedRegion,
           apply(member, AIRegionFilterFix[member], input, selectedRegion))

\* ------------------------------------------------------- specification
\* a page starts with whatever an earlier visit, or anything else writing
\* to the origin's localStorage, left behind
InitStorages ==
  {[k \in Keys |-> NoItem],
   [k \in Keys |-> IF k = CACHE_KEY THEN Garbage ELSE NoItem]}

Init ==
  /\ now = 0
  /\ ticks = 0
  /\ storage \in InitStorages
  /\ pending = [s \in 1..MaxPending |-> Idle]
  /\ last = NoEvent
  /\ storedAt = [k \in Keys |-> -1]
  /\ isAdmin \in BOOLEAN
  /\ layers \in {<<"cache">>, <<"cache", "region">>, <<"region", "cache">>}
  /\ input = JUndef
  /\ helper = NoCall
  /\ timers = IF isAdmin THEN {BACKGROUND_REFRESH_INTERVAL} ELSE {}
  /\ scripts = IF InSeq("region", layers) THEN <<"patch">> ELSE <<>>

NextFdwc ==
  \/ \E d \in TickSteps : Tick(d)
  \/ \E k \in FdwcKeys : fetchDataWithCache(k)
  \/ \E s \in Slots, v \in Payloads, ok \in BOOLEAN : fdwcColdResolve(s, v, ok)
  \/ \E s \in Slots : fdwcColdReject(s)
  \/ \E s \in Slots, v \in Payloads, ok \in BOOLEAN : fdwcBgResolve(s, v, ok)
  \/ \E s \in Slots : fdwcBgReject(s)

\* for the jobs cache one millisecond is already more than TTL_MS
NextJobs ==
  \/ Tick(1)
  \/ managerFetchJobs(FALSE)
  \/ forceRefresh
  \/ clearCache
  \/ \E s \in Slots, sig \in Outcomes, w \in WriteOutcomes : networkResponds(s, sig, w)

NextFetch ==
  \/ Tick(1)
  \/ \E req \in Requests : callFetch(req)
  \/ \E s \in Slots, sig \in Outcomes, w \in WriteOutcomes : networkResponds(s, sig, w)

\* the non-forced READs of both caches over the shared store
NextReads ==
  \/ NextFdwc
  \/ managerFetchJobs(FALSE)
  \/ \E s \in Slots, sig \in Outcomes, w \in WriteOutcomes : networkResponds(s, sig, w)

\* the single-record normalizers on one raw region value
InitNormalize ==
  /\ now = 0
  /\ ticks = 0
  /\ storage = [k \in Keys |-> NoItem]
  /\ pending = [s \in 1..MaxPending |-> Idle]
  /\ last = NoEvent
  /\ storedAt = [k \in Keys |-> -1]
  /\ isAdmin = FALSE
  /\ layers = <<"cache", "region">>
  /\ input \in RegionInputs
  /\ helper = NoCall
  /\ timers = {}
  /\ scripts = <<"patch">>

NextNormalize ==
  \/ call_cleanRegionArray
  \/ call_normalizeRegion
  \/ call_normalizeJobOfRegion
  \/ call_cleaned_regions

\* the helpers that work on the jobs list
InitAggregate ==
  /\ now = 0
  /\ ticks = 0
  /\ storage = [k \in Keys |-> NoItem]
  /\ pending = [s \in 1..MaxPending |-> Idle]
  /\ last = NoEvent
  /\ storedAt = [k \in Keys |-> -1]
  /\ isAdmin = FALSE
  /\ layers = <<"cache", "region">>
  /\ input \in JobsInputs
  /\ helper = NoCall
  /\ timers = {}
  /\ scripts = <<"patch", "runtimeFix", "filterFix">>

NextAggregate ==
  \/ call_normalizeJobs
  \/ \E i \in 1..MaxJobs : call_normalizeJob(i)
  \/ call_getUniqueRegions
  \/ call_getFlattenedUniqueRegions
  \/ call_getUniqueRegions_runtimeFix
  \/ call_getRegionCounts
  \/ call_getAllRegionCounts
  \/ call_getRegionCounts_filterFix
  \/ \E selectedRegion \in Selections : call_filterJobs(selectedRegion)
  \/ \E selectedRegion \in Selections : call_filterJobsByRegion(selectedRegion)
  \/ \E i \in 1..MaxJobs, selectedRegion \in Selections :
       call_matchesRegion(i, selectedRegion)

\* an administrator's page left open: the clock reaches the interval
NextTimer ==
  \/ Tick(BACKGROUND_REFRESH_INTERVAL)
  \/ autoRefresh
  \/ managerFetchJobs(FALSE)
  \/ forceRefresh
  \/ clearCache
  \/ \E s \in Slots, sig \in Outcomes, w \in WriteOutcomes : networkResponds(s, sig, w)

\* an administrator's page on which two promises can be in flight at once
InitOverlap ==
  /\ now = 0
  /\ ticks = 0
  /\ storage = [k \in Keys |-> NoItem]
  /\ pending = [s \in 1..MaxOverlap |-> Idle]
  /\ last = NoEvent
  /\ storedAt = [k \in Keys |-> -1]
  /\ isAdmin = TRUE
  /\ layers = <<"cache", "region">>
  /\ input = JUndef
  /\ helper = NoCall
  /\ timers = {BACKGROUND_REFRESH_INTERVAL}
  /\ scripts = <<"patch">>

\* READs, forced refreshes and the timer start refreshes of the jobs key
\* while earlier ones are in flight
NextOverlap ==
  \/ \E d \in {BACKGROUND_REFRESH_INTERVAL, ExpiryMs + 1} : Tick(d)
  \/ autoRefresh
  \/ managerFetchJobs(FALSE)
  \/ forceRefresh
  \/ \E s \in Slots, sig \in Outcomes, w \in WriteOutcomes : networkResponds(s, sig, w)
  \/ \E k \in FdwcKeys : fetchDataWithCache(k)
  \/ \E s \in Slots, v \in Payloads, ok \in BOOLEAN : fdwcColdResolve(s, v, ok)
  \/ \E s \in Slots : fdwcColdReject(s)
  \/ \E s \in Slots, v \in Payloads, ok \in BOOLEAN : fdwcBgResolve(s, v, ok)
  \/ \E s \in Slots : fdwcBgReject(s)

\* the React app: loadData reads the jobs through fetchDataWithCache
NextAdzuna ==
  \/ \E d \in TickSteps : Tick(d)
  \/ \E k \in FdwcKeys : fetchDataWithCache(k)
  \/ \E s \in Slots, sig \in AdzunaOutcomes, ok \in BOOLEAN : adzunaCold(s, sig, ok)
  \/ \E s \in Slots, sig \in AdzunaOutcomes, ok \in BOOLEAN : adzunaBg(s, sig, ok)

\* a page before any region script has run, with the jobs list at hand
InitLoad ==
  /\ now = 0
  /\ ticks = 0
  /\ storage = [k \in Keys |-> NoItem]
  /\ pending = [s \in 1..MaxPending |-> Idle]
  /\ last = NoEvent
  /\ storedAt = [k \in Keys |-> -1]
  /\ isAdmin = FALSE
  /\ layers = <<>>
  /\ input \in LoadInputs
  /\ helper = NoCall
  /\ timers = {}
  /\ scripts = <<>>

\* the scripts load in any order; page code calls the documented helpers
NextLoad ==
  \/ \E script \in RegionScripts : loadScript(script)
  \/ \E member \in DocumentedHelpers, selectedRegion \in Selections :
       callHelper(member, selectedRegion)
  \/ \E member \in DocumentedHelpers, selectedRegion \in Selections :
       callFix(member, selectedRegion)

Next ==
  \/ NextFdwc \/ NextJobs \/ NextFetch \/ NextTimer \/ NextNormalize \/ NextAggregate
  \/ NextLoad \/ NextOverlap \/ NextAdzuna

Spec == Init /\ [][Next]_vars
SpecFdwc == Init /\ [][NextFdwc]_vars
SpecJobs == Init /\ [][NextJobs]_vars
SpecFetch == Init /\ [][NextFetch]_vars
SpecReads == Init /\ [][NextReads]_vars
SpecTimer == Init /\ [][NextTimer]_vars
SpecLoad == InitLoad /\ [][NextLoad]_vars
SpecOverlap == InitOverlap /\ [][NextOverlap]_vars
SpecAdzuna == Init /\ [][NextAdzuna]_vars
SpecNormalize == InitNormalize /\ [][NextNormalize]_vars
SpecAggregate == InitAggregate /\ [][NextAggregate]_vars

\* ============================================================ properties
\* a step in which a caller invoked op: the clock stands, the event is the
\* call's, and no promise in flight was touched
Called(op) ==
  /\ ticks' = ticks
  /\ last'.op = op
  /\ \A s \in Slots : pending[s] # Idle => pending'[s] = pending[s]

\* the promises a step put in flight
Launched == {s \in Slots : pending[s] = Idle /\ pending'[s] # Idle}

\* a complete, readable entry is stored for the jobs manager
jobsEntryStored ==
  ParseOk(storage[CACHE_KEY]) /\ ParseIntOk(storage[CACHE_TIMESTAMP_KEY])

\* the jobs manager finds nothing it can serve
jobsEntryUnusable ==
  \/ storage[CACHE_KEY] = NoItem
  \/ storage[CACHE_TIMESTAMP_KEY] = NoItem
  \/ /\ ParseIntOk(storage[CACHE_TIMESTAMP_KEY])
     /\ now - parseInt(storage[CACHE_TIMESTAMP_KEY]) > TTL_MS
  \/ ~ParseOk(storage[CACHE_KEY])

fdwcStored == JSONparse(storage[CACHE_KEY])

\* C2: a fetchDataWithCache READ made later than the stored entry's expiry
\* returns the stored value without waiting for the network, starts exactly
\* one background fetch for the key and leaves the entry as it is.
C2_StaleServe ==
  [][(/\ Called("fdwc")
      /\ ParseOk(storage[CACHE_KEY])
      /\ HasExpiry(fdwcStored)
      /\ now > fdwcStored.expiry)
     => /\ last'.outcome = "value"
        /\ ~last'.awaited
        /\ last'.result = Value(Member_value(fdwcStored))
        /\ Cardinality(Launched) = 1
        /\ \A s \in Launched : pending'[s] = [kind |-> "fdwcBg", key |-> CACHE_KEY]
        /\ storage' = storage]_vars

\* a stale READ has returned the stored value and its refresh is in flight
C2_Witness ==
  /\ last.op = "fdwc" /\ last.path = "stale" /\ last.outcome = "value"
  /\ last.fetches = 1
  /\ ParseOk(storage[CACHE_KEY]) /\ HasExpiry(fdwcStored)
  /\ now > fdwcStored.expiry
  /\ last.result = Value(Member_value(fdwcStored))
  /\ \E s \in Slots : pending[s] = [kind |-> "fdwcBg", key |-> CACHE_KEY]

\* C3 as stated: when an entry was stored at time s (storedAt) with TTL T
\* (ExpiryMs) and is still the stored item, a fetchDataWithCache READ at a
\* time t with t - s < T returns the stored value, starts no fetch and
\* leaves the entry unchanged.
C3_FreshUntilTtlAfterStore ==
  [][(/\ Called("fdwc")
      /\ storedAt[CACHE_KEY] >= 0
      /\ ParseOk(storage[CACHE_KEY])
      /\ HasExpiry(fdwcStored)
      /\ now - storedAt[CACHE_KEY] < ExpiryMs)
     => /\ last'.result = Value(Member_value(fdwcStored))
        /\ last'.fetches = 0
        /\ Launched = {}
        /\ storage' = storage]_vars

\* a promise in flight settled for good in the step
Settled == \E s \in Slots : pending[s] # Idle /\ pending'[s] = Idle

Retried(p) ==
  \E s \in Slots :
    /\ pending[s] # Idle /\ pending'[s] # Idle /\ pending'[s] # pending[s]
    /\ pending[s].kind = "net"
    /\ pending[s].frames[Len(pending[s].frames)].path = p

firstCw(K) == CHOOSE i \in 1..Len(K) : K[i].f = "cw" /\ \A j \in 1..(i - 1) : K[j].f # "cw"

\* what the caller of window.fetch gets when the native fetch answers sig and
\* no interceptor takes part: the region wrapper, where installed, rebuilds
\* the response
belowCache(sig, req) ==
  IF sig.s = "response" /\ isJobsEndpoint(req) /\ (\E i \in 1..Len(layers) : layers[i] = "region")
  THEN regionResponse(sig)
  ELSE sig

\* C6: when the cache path of an intercepted jobs request fails, the
\* interceptor calls the fetch it wrapped with the arguments of its own call
\* and hands on what that returns; an intercepted request is rejected only
\* when the network call made for the fallback is.
C6_FallbackToOriginalFetch ==
  [][/\ \A s \in Slots :
          (/\ pending[s] # Idle /\ pending[s].kind = "net"
           /\ pending'[s] # Idle /\ pending'[s] # pending[s])
          => LET K == pending[s].frames
                 i == firstCw(K)
             IN /\ cwCount(K) >= 1
                /\ pending'[s].kind = "net"
                /\ pending'[s].req = K[i].req
                /\ cwCount(pending'[s].frames) = cwCount(K) - 1
                /\ \E n \in 0..1 :
                     SubSeq(pending'[s].frames, n + 1, Len(pending'[s].frames))
                       = SubSeq(K, i + 1, Len(K))
     /\ (/\ last'.op = "fetch" /\ last'.path # "pass" /\ Settled
         /\ last'.cws = 0)
        => /\ last'.result = belowCache(last'.net, last'.req)
           /\ (last'.outcome = "throw") <=> (last'.net = Rejection)
     /\ (/\ last'.op = "fetch" /\ last'.path # "pass"
         /\ Settled \/ Called("fetch")
         /\ last'.outcome = "throw")
        => last'.cws = 0 /\ last'.net = Rejection]_vars

\* the cache path of an intercepted request failed and the caller got the
\* response of the fallback call
C6_Witness ==
  /\ last.op = "fetch" /\ last.path = "miss" /\ last.outcome = "value"
  /\ last.cws = 0
  /\ last.net.s = "response"
  /\ last.result = belowCache(last.net, last.req)
  /\ storage[CACHE_KEY] = NoItem

\* what a response of the cache interceptor becomes on its way to the caller:
\* a region wrapper installed after the interceptor rebuilds it
aboveCache(resp) ==
  IF \E i, j \in 1..Len(layers) : i < j /\ layers[i] = "region" /\ layers[j] = "cache"
  THEN regionResponse(resp)
  ELSE resp

\* C7 as stated: every GET request for the jobs endpoint resolves to a
\* response with status 200.
C7_AlwaysStatus200 ==
  (/\ last.op = "fetch"
   /\ last.req.method = "GET" /\ last.req.jobs
   /\ last.outcome # "await")
  => /\ last.outcome = "value"
     /\ last.result.s = "response"
     /\ last.result.status = 200

\* C7 amended: a GET request whose URL is a string containing the jobs
\* endpoint resolves, whenever the cache layer returns a value, to a response
\* with status 200 whose body is that value: the stored value on a hit, the
\* fetched value on a miss or a forced refresh; a request whose URL is not a
\* string is not intercepted.
C7_SyntheticResponse ==
  [][/\ (Called("fetch") /\ last'.path = "hit")
        => /\ ParseOk(storage[CACHE_KEY])
           /\ last'.outcome = "value"
           /\ last'.result.status = 200
           /\ last'.result =
                aboveCache(syntheticResponse(JSONparse(storage[CACHE_KEY])))
     /\ (/\ last'.op = "fetch" /\ last'.path \in {"miss", "force"} /\ Settled
         /\ last'.cws >= 1 /\ apiDelivers(last'.net))
        => /\ last'.outcome = "value"
           /\ last'.result.status = 200
           /\ last'.result =
                aboveCache(syntheticResponse(
                  JSONparse(belowCache(last'.net, last'.req).body)))
     /\ (/\ last'.op = "fetch" /\ last'.path \in {"miss", "force"} /\ Settled
         /\ last'.cws >= 1)
        => apiDelivers(last'.net)
     /\ (Called("fetch") /\ last'.req.method = "GET" /\ last'.req.jobs)
        => (last'.path = "pass" <=> ~last'.req.str)]_vars

\* an intercepted request missed the cache and the caller got the fetched
\* value in a response built by the interceptor
C7_Witness ==
  /\ last.op = "fetch" /\ last.path = "miss" /\ last.outcome = "value"
  /\ last.cws >= 1
  /\ last.net.s = "response" /\ last.net.status = 200
  /\ last.result.status = 200
  /\ ParseOk(last.result.body)
  /\ storage[CACHE_KEY] = last.result.body

\* the requests C8 is about: another method than GET, or another endpoint
passesThrough(req) == req.method # "GET" \/ ~req.jobs

\* the step leaves every request in flight for a pass-through call alone,
\* or ends it
ForwardedOnce ==
  \A s \in Slots :
    (/\ pending[s] # Idle /\ pending[s].kind = "net"
     /\ pending[s].frames[Len(pending[s].frames)].path = "pass")
    => pending'[s] = pending[s] \/ pending'[s] = Idle

\* the call of a pass-through request starts one native request with the
\* caller's arguments, outside the cache layer, and leaves the store alone
ForwardedUnchanged ==
  (Called("fetch") /\ passesThrough(last'.req))
  => /\ last'.path = "pass"
     /\ Cardinality(Launched) = 1
     /\ \A s \in Launched :
          /\ pending'[s].kind = "net"
          /\ pending'[s].req = last'.req
          /\ cwCount(pending'[s].frames) = 0
     /\ storage' = storage

\* C8 as stated: a request with another method than GET, or for another
\* endpoint, is forwarded to the original fetch once with unchanged
\* arguments, its result is returned as it is, and the store is not touched.
C8_PassThroughUntouched ==
  [][/\ ForwardedUnchanged
     /\ ForwardedOnce
     /\ (last'.op = "fetch" /\ passesThrough(last'.req) /\ Settled)
        => /\ last'.result = last'.net
           /\ storage' = storage]_vars

\* C8 amended: such a request is forwarded once with unchanged arguments and
\* the store is not touched; a request for another endpoint gets the result
\* as it is; a non-GET request for the jobs endpoint gets it as it is from
\* the cache interceptor, but where the region wrapper is installed the
\* body of its response is replaced by the normalized data, status kept.
C8_PassThrough ==
  [][/\ ForwardedUnchanged
     /\ ForwardedOnce
     /\ (last'.op = "fetch" /\ passesThrough(last'.req) /\ Settled)
        => /\ storage' = storage
           /\ last'.cws = 0
           /\ ~last'.req.jobs => last'.result = last'.net
           /\ last'.req.jobs => last'.result = belowCache(last'.net, last'.req)
           /\ last'.result.s = last'.net.s
           /\ last'.net.s = "response" => last'.result.status = last'.net.status]_vars

\* a POST to the jobs endpoint came back with its body rebuilt by the
\* region wrapper
C8_Witness ==
  /\ last.op = "fetch" /\ last.path = "pass" /\ last.outcome = "value"
  /\ last.req.method = "POST" /\ last.req.jobs
  /\ last.net.s = "response"
  /\ last.result # last.net
  /\ last.result = regionResponse(last.net)

\* C9: a READ that finds nothing stored waits for its fetch and writes
\* nothing; when the fetch fails, the caller gets the rejection and nothing
\* is written, neither by the failure nor by a retry through the
\* interceptor's fallback: the key is as absent after the failure as before.
C9_ColdStartFailure ==
  [][/\ (Called("fdwc") /\ storage[CACHE_KEY] = NoItem)
        => /\ last'.outcome = "await"
           /\ Cardinality(Launched) = 1
           /\ storage' = storage
     /\ (Called("fetchJobs") /\ last'.path # "force" /\ storage[CACHE_KEY] = NoItem)
        => /\ last'.path = "miss" /\ last'.outcome = "await"
           /\ Launched # {}
           /\ storage' = storage
     /\ (/\ Settled
         /\ \/ last'.op = "fdwcCold"
            \/ last'.op = "fetchJobs" /\ last'.path = "miss"
         /\ last'.fetched = "failed")
        => /\ last'.outcome = "throw"
           /\ last'.awaited
           /\ storage' = storage
     /\ Retried("miss") => storage' = storage]_vars

\* a fetchJobs READ found nothing stored, its fetch failed, the caller got
\* the rejection and the key is still absent
C9_Witness ==
  /\ last.op = "fetchJobs" /\ last.path = "miss" /\ last.outcome = "throw"
  /\ last.fetched = "failed"
  /\ ~last.had
  /\ storage[CACHE_KEY] = NoItem

\* C10 as stated: a READ of a key whose stored item cannot be parsed behaves
\* like a READ of an absent key: it waits for a fetch and the caller sees no
\* error.
C10_CorruptItemIsMiss ==
  [][/\ (Called("fdwc") /\ storage[CACHE_KEY] # NoItem /\ ~ParseOk(storage[CACHE_KEY]))
        => /\ last'.outcome = "await"
           /\ Cardinality(Launched) = 1
     /\ (/\ Called("fetchJobs") /\ last'.path # "force"
         /\ storage[CACHE_KEY] # NoItem /\ ~ParseOk(storage[CACHE_KEY]))
        => /\ last'.path = "miss" /\ last'.outcome = "await"
           /\ Launched # {}]_vars

\* the request in flight belongs to a background refresh of the jobs manager
isJobsRefresh(op) ==
  op.kind = "net" /\ op.frames[Len(op.frames)].op = "bg"

\* C11 as stated: the rejection of a background refresh surfaces nowhere: the
\* READ that started it has returned its value, no rejected promise is left
\* without a handler, the store is not touched; and the next READ of the
\* entry, still due for a refresh, starts a new background refresh.
C11_BgRejectionSwallowed ==
  [][/\ (Settled /\ bgRejected(last'))
        => /\ ~last'.unhandled
           /\ storage' = storage
     /\ (/\ last.op = "fdwcBg" /\ bgRejected(last)
         /\ Called("fdwc")
         /\ ParseOk(storage[CACHE_KEY]) /\ HasExpiry(fdwcStored)
         /\ now > fdwcStored.expiry)
        => /\ last'.outcome = "value"
           /\ \E s \in Launched : pending'[s].kind = "fdwcBg"
     /\ (/\ last.op = "bg" /\ bgRejected(last)
         /\ Called("fetchJobs") /\ last'.path # "force"
         /\ jobsEntryStored /\ backgroundRefreshDue(storage))
        => /\ last'.outcome = "value"
           /\ \E s \in Launched : isJobsRefresh(pending'[s])]_vars

\* the region list a single-record normalizer produced
cleanedBy(call) ==
  IF call.f = "normalizeJob" THEN call.result.v.region ELSE call.result.v

\* an array of names of FIXED_REGIONS, not empty, no name twice
isCleanList(v) ==
  /\ v.t = "array"
  /\ Len(v.items) > 0
  /\ \A i \in 1..Len(v.items) :
       v.items[i].t = "string" /\ InSeq(v.items[i].s, FIXED_REGIONS)
  /\ \A i, j \in 1..Len(v.items) : v.items[i] = v.items[j] => i = j

\* C12: whatever the raw region value (a string, an array, an empty or
\* undefined value, names joined into one string), cleanRegionArray,
\* normalizeRegion, normalizeJob and the REST endpoint's cleaner return a
\* non-empty array of names of the seven-value vocabulary, no name twice.
C12_ClosedVocabulary ==
  helper.f \in {"cleanRegionArray", "normalizeRegion", "normalizeJob", "cleaned_regions"}
  => /\ helper.result.s = "value"
     /\ isCleanList(cleanedBy(helper))

\* normalizeRegion got a name and a joined string holding that name again,
\* and returned each name once
C12_Witness ==
  /\ helper.f = "normalizeRegion"
  /\ helper.arg = Strings(<<sUK, sLondonUKEU>>)
  /\ helper.result = Value(Strings(<<sUK, sEU>>))

\* C13: normalizeRegion applied to what normalizeRegion returned returns the
\* same array, element for element and in the same order.
C13_Idempotent ==
  [][(/\ helper.f = "normalizeRegion" /\ helper'.f = "normalizeRegion"
      /\ helper.result.s = "value"
      /\ helper'.arg = helper.result.v)
     => helper'.result = helper.result]_vars

\* normalizeRegion was applied to its own result for a joined string and
\* returned it unchanged
C13_Witness ==
  /\ input = JStr(sLondonUKEU)
  /\ helper.f = "normalizeRegion"
  /\ helper.arg = Strings(<<sUK, sEU>>)
  /\ helper.result = Value(helper.arg)

\* the cleaned region list of a record contains the name v
cleanedHas(j, v) == InSeq(JStr(v), cleanedRegion(j))

\* the records of a list whose cleaned region list contains v
recordsWith(jobs, v) == {i \in 1..Len(jobs.items) : cleanedHas(jobs.items[i], v)}

\* C14 as stated: for every list of records, the counts object of
\* getRegionCounts and getAllRegionCounts maps every name of the vocabulary
\* to the number of records whose cleaned region list contains it (so one
\* record adds at most 1 to a counter, and a name in no record maps to 0).
C14_CountsRecords ==
  (/\ helper.f \in {"getRegionCounts", "getAllRegionCounts", "getRegionCounts_filterFix"}
   /\ helper.arg.t = "array"
   /\ helper.result.s = "value")
  => \A v \in DOMAIN ZeroCounts :
       helper.result.v[v] = Cardinality(recordsWith(helper.arg, v))

\* C15 as stated: filterJobs and filterJobsByRegion return, in the original
\* order, exactly the records whose cleaned region list contains the
\* selected name, and the list unchanged when "All" or nothing is selected.
C15_FilterKeepsMatching ==
  (/\ helper.f \in {"filterJobs", "filterJobsByRegion"}
   /\ helper.arg.t = "array"
   /\ helper.result.s = "value")
  => IF helper.selected \in {JStr(sAll), JStr(<<>>), JUndef}
     THEN helper.result.v = helper.arg
     ELSE helper.result.v =
            JArr(SelectSeq(helper.arg.items,
                           LAMBDA j : cleanedHas(j, helper.selected.s)))

\* C16 as stated: getUniqueRegions and getFlattenedUniqueRegions return
\* exactly the names that occur in the cleaned region list of at least one
\* record, each once, in the order of FIXED_REGIONS.
C16_UniqueInCanonicalOrder ==
  (/\ helper.f \in {"getUniqueRegions", "getFlattenedUniqueRegions",
                     "getUniqueRegions_runtimeFix"}
   /\ helper.arg.t = "array"
   /\ helper.result.s = "value")
  => helper.result.v =
       Strings(SelectSeq(FIXED_REGIONS,
                         LAMBDA v : recordsWith(helper.arg, v) # {}))

\* C17 as stated: no helper throws, whatever the list holds (a null record
\* too), and a record whose region cannot be interpreted gets ["Others"].
C17_NeverThrows ==
  /\ helper.f # "none" => helper.result.s = "value"
  /\ (/\ helper.f = "normalizeJob" /\ helper.result.s = "value"
      /\ helper.arg.region \in {JUndef, JArr(<<>>)})
     => helper.result.v.region = Strings(<<sOthers>>)

\* the step put a native request in flight that carries the cache-busting
\* marker (`?t=` and cache: 'no-cache')
LaunchedForced ==
  \E s \in Launched : /\ pending'[s].kind = "net"
                       /\ pending'[s].req.bust
                       /\ pending'[s].req.cache = "no-cache"

\* C18 as stated: when isAdmin is true every READ of the jobs key through
\* fetchJobs triggers a forced refresh, a network call carrying the
\* cache-busting marker, whatever the freshness of the stored entry.
C18_AdminAlwaysForces ==
  [][(isAdmin /\ Called("fetchJobs")) => LaunchedForced]_vars

\* C18 amended: when isAdmin is true every READ through fetchJobs starts a
\* network call. A READ answered from the stored entry returns it at once
\* and starts a background refresh carrying the marker, whatever the age of
\* the entry; a forced READ waits for a call carrying the marker; a READ
\* that finds no usable entry waits for a plain call, without the marker and
\* with cache: 'default', and starts no forced refresh.
C18_AdminRefresh ==
  [][(isAdmin /\ Called("fetchJobs")) =>
       /\ last'.path = "hit" =>
            /\ last'.outcome = "value" /\ ~last'.awaited
            /\ \E s \in Launched : /\ isJobsRefresh(pending'[s])
                                   /\ pending'[s].req = JobsRequest(TRUE)
       /\ last'.path = "force" =>
            /\ last'.outcome = "await"
            /\ LaunchedForced
       /\ last'.path = "miss" =>
            /\ last'.outcome = "await"
            /\ Launched # {}
            /\ \A s \in Launched : /\ pending'[s].kind = "net"
                                   /\ pending'[s].req = JobsRequest(FALSE)
                                   /\ ~isJobsRefresh(pending'[s])]_vars

\* an administrator was served the stored entry while the forced refresh
\* the READ started is in flight
C18_Witness ==
  /\ isAdmin
  /\ last.op = "fetchJobs" /\ last.path = "hit" /\ last.outcome = "value"
  /\ \E s \in Slots : /\ isJobsRefresh(pending[s])
                       /\ pending[s].req = JobsRequest(TRUE)

\* the age of the stored jobs entry
jobsEntryAge == now - parseInt(storage[CACHE_TIMESTAMP_KEY])

\* C19 as stated: the jobs cache has a 10 minute TTL: fetchJobs returns an
\* entry stored less than 600000 ms ago from the cache, with no blocking
\* network call and without removing it from storage; a READ later than
\* 600000 ms after the store still returns the stored data synchronously and
\* schedules exactly one refresh.
C19_TenMinuteTtl ==
  [][(/\ Called("fetchJobs") /\ last'.path # "force"
      /\ jobsEntryStored /\ jobsEntryAge # DocumentedTtlMs)
     => /\ last'.outcome = "value" /\ ~last'.awaited
        /\ last'.result = Value(JSONparse(storage[CACHE_KEY]))
        /\ \A k \in Keys : storage'[k] = storage[k]
        /\ jobsEntryAge > DocumentedTtlMs
             => /\ Cardinality(Launched) = 1
                /\ \A s \in Launched : isJobsRefresh(pending'[s])]_vars

\* a call of one of the operations window.AIJobsCacheManager exposes
\* (fetchJobs, clearCache, forceRefresh)
managerCall == managerFetchJobs(FALSE) \/ forceRefresh \/ clearCache

\* C20 as stated: the refresh scheduler offers a teardown after which no
\* timer-driven refresh is started any more: whenever a timer is set, one of
\* the operations the manager exposes clears all timers; the teardown aborts
\* no call in flight, which completes and writes its result later.
C20_TeardownClearsTimers ==
  timers # {} =>
    ENABLED (/\ managerCall
             /\ timers' = {}
             /\ \A s \in Slots : pending[s] # Idle => pending'[s] = pending[s])

\* every region script has run
allLoaded == \A script \in RegionScripts : InSeq(script, scripts)

\* C21 as stated: after all region patch scripts have run, in whatever
\* order, window.AIRegionFilterHelper has every helper the documentation
\* names.
C21_DocumentedHelpersPresent ==
  allLoaded => \A member \in DocumentedHelpers : AIRegionFilterHelper[member] # "none"

\* the calls of fetchJobsFromAPI a request in flight has passed through
apiCount(K) == Cardinality({i \in 1..Len(K) : K[i].f = "api"})

\* C22 as stated: the network call the cache layer issues reaches the
\* original fetch without being intercepted again: a request in flight has
\* passed through fetchJobsFromAPI once, and through the interceptor at most
\* once (when page code called window.fetch).
C22_NoReentry ==
  \A s \in Slots :
    pending[s].kind = "net" =>
      /\ apiCount(pending[s].frames) <= 1
      /\ cwCount(pending[s].frames) <= 1

\* the promise that settled in the step
settledSlots == {s \in Slots : pending[s] # Idle /\ pending'[s] = Idle}

\* another promise was in flight when the step began, and still is
overlapped == \E s \in settledSlots, t \in Slots : t # s /\ pending[t] # Idle

\* the step leaves the promises in flight that did not settle as they were
othersRun == \A s \in settledSlots, t \in Slots : t # s => pending'[t] = pending[t]

\* the refreshes of the jobs manager
JobsOps == {"fetchJobs", "bg", "timer"}

\* C23 as stated: when refreshes of the key overlap, the one that completes
\* does not stop the other, and when it completes with a result the store
\* holds that result, whole, whichever refresh started first.
C23_LastCompletedWins ==
  [][(Settled /\ overlapped) =>
       /\ othersRun
       /\ (last'.op \in JobsOps /\ last'.fetched = "ok")
            => /\ storage'[CACHE_KEY] = JSONstringify(last'.result.v)
               /\ storage'[CACHE_TIMESTAMP_KEY] = Text(JNum(now))
       /\ (last'.op = "fdwcBg" /\ last'.fetched = "ok")
            => /\ last'.result.s = "value"
               /\ storage'[CACHE_KEY] = fdwcEntry(last'.result.v, now)]_vars

\* C23 amended: when refreshes of the key overlap, the one that completes
\* does not stop the other; when it completes with a result and localStorage
\* takes the write, the store holds that result, whole, whichever refresh
\* started first; when localStorage refuses the write the store keeps what
\* it held (the jobs manager: the timestamp alone, when only the second
\* setItem is refused); a refresh that fails leaves the store alone.
C23_LastWriteWins ==
  [][(Settled /\ overlapped) =>
       /\ othersRun
       /\ (last'.op \in JobsOps /\ last'.fetched = "ok")
            => /\ last'.outcome = "value"
               /\ last'.wrote = "ok"
                    => /\ storage'[CACHE_KEY] = JSONstringify(last'.result.v)
                       /\ storage'[CACHE_TIMESTAMP_KEY] = Text(JNum(now))
               /\ last'.wrote = "failTimestamp"
                    => /\ storage'[CACHE_KEY] = JSONstringify(last'.result.v)
                       /\ storage'[CACHE_TIMESTAMP_KEY] = storage[CACHE_TIMESTAMP_KEY]
               /\ last'.wrote = "failData" => storage' = storage
       /\ (last'.op = "fdwcBg" /\ last'.fetched = "ok")
            => \/ /\ last'.outcome = "stored"
                  /\ storage' = [storage EXCEPT
                                   ![CACHE_KEY] = fdwcEntry(last'.result.v, now)]
               \/ /\ last'.outcome = "writeFailed"
                  /\ storage' = storage
       /\ last'.fetched = "failed" => storage' = storage]_vars

\* a refresh of the jobs manager has completed and the store holds its
\* result in place of an earlier one, while another refresh is in flight
C23_Witness ==
  /\ last.op \in JobsOps /\ last.fetched = "ok" /\ last.wrote = "ok"
  /\ last.had
  /\ storage[CACHE_KEY] = JSONstringify(last.result.v)
  /\ storage[CACHE_TIMESTAMP_KEY] = Text(JNum(now))
  /\ \E s \in Slots : pending[s] # Idle /\ pending[s].kind = "net"

\* the data item and the timestamp item are both stored or both missing
entryWhole == storage[CACHE_KEY] = NoItem <=> storage[CACHE_TIMESTAMP_KEY] = NoItem

\* C24 as stated: the jobs cache entry is absent or fully populated: no step
\* leaves one of the two items without the other, and a step that stores
\* data stores its timestamp with it, also when a write fails part-way.
C24_EntryAbsentOrWhole ==
  [][/\ entryWhole => entryWhole'
     /\ (storage'[CACHE_KEY] # storage[CACHE_KEY] /\ storage'[CACHE_KEY] # NoItem)
          => storage'[CACHE_TIMESTAMP_KEY] = Text(JNum(now))]_vars

\* the request behind the fetch function failed: a network error or an
\* HTTP error status
upstreamFailed(sig) == sig.s = "error" \/ (sig.s = "response" /\ ~ResponseOk(sig))

\* C25 as stated: when the upstream request behind the fetch function
\* fails, fetchDataWithCache writes no new entry for the key and does not
\* replace an existing one.
C25_FailureWritesNothing ==
  [][(Settled /\ last'.op \in {"fdwcCold", "fdwcBg"} /\ upstreamFailed(last'.net))
       => storage' = storage]_vars

\* C26 as stated: every entry fetchDataWithCache writes carries the expiry
\* time of the write plus the TTL, on the cold-start path as on the
\* background path; hence the READ made right after a cold-start READ has
\* returned is a fresh hit.
C26_ExpiryFromWriteTime ==
  [][/\ (/\ Settled /\ last'.op \in {"fdwcCold", "fdwcBg"}
         /\ storage'[CACHE_KEY] # storage[CACHE_KEY])
        => /\ ParseOk(storage'[CACHE_KEY])
           /\ JSONparse(storage'[CACHE_KEY]) = JEntry(last'.result.v, now + ExpiryMs)
     /\ (/\ last.op = "fdwcCold" /\ last.outcome = "value"
         /\ Called("fdwc"))
        => /\ last'.path = "fresh"
           /\ last'.result = last.result]_vars

\* every record of a list carries a cleaned region list
recordsCleaned(v) ==
  v.t = "array" =>
    \A i \in 1..Len(v.items) :
      v.items[i].t = "job" /\ isCleanList(v.items[i].region)

\* both the cache script and the region patch script have wrapped fetch
bothWrapped == InSeq("cache", layers) /\ InSeq("region", layers)

EnsuringHelpers ==
  {"getUniqueRegions_runtimeFix", "filterJobs", "filterJobsByRegion",
   "getAllRegionCounts", "getRegionCounts_filterFix"}

\* the record's region is an array without a single recognised name
noneRecognised(j) ==
  /\ Member_region(j).t = "array"
  /\ \A k \in 1..Len(Member_region(j).items) :
       ~ /\ Member_region(j).items[k].t = "string"
         /\ InSeq(Member_region(j).items[k].s, FIXED_REGIONS)

\* C28 as stated: the region list the filter helpers compute with
\* ensureRegionArray for a record is never empty and has no duplicates; for
\* an empty array, or one with no recognised value, it is ["Others"].
C28_EnsuredListClean ==
  (/\ helper.f \in EnsuringHelpers
   /\ helper.arg.t = "array"
   /\ helper.result.s = "value")
  => \A i \in 1..Len(helper.arg.items) :
       /\ isCleanList(JArr(ensuredRegion(helper.arg.items[i])))
       /\ noneRecognised(helper.arg.items[i])
            => ensuredRegion(helper.arg.items[i]) = <<JStr(sOthers)>>

\* C29 as stated: what fetchDataWithCache finds stored under its key was
\* written in its own {value, expiry} shape, so a READ that finds an entry
\* never returns undefined in place of the stored payload.
C29_OwnLayoutUnderKey ==
  [][(Called("fdwc") /\ ParseOk(storage[CACHE_KEY]))
       => /\ HasExpiry(fdwcStored)
          /\ last'.outcome = "value"
          /\ last'.result # Value(JUndef)]_vars

\* the jobs of a list that matchesRegion accepts for a selected region
matching(jobs, selectedRegion) ==
  SelectSeq(jobs, LAMBDA j : matchesRegion(j, selectedRegion))

\* the regions a dropdown filters by
CountedRegions == {sUK, sEU, sOthers}

\* C30 as stated: the region helpers agree on membership: filterJobs keeps
\* exactly the jobs matchesRegion accepts, and for every region both
\* countJobsByRegion versions and the counter of getRegionCounts /
\* getAllRegionCounts equal the number of those jobs.
C30_HelpersAgree ==
  (/\ helper.arg.t = "array"
   /\ \A i \in 1..Len(helper.arg.items) : isObject(helper.arg.items[i])
   /\ helper.result.s = "value")
  => /\ helper.f = "filterJobs"
          => helper.result.v = JArr(matching(helper.arg.items, helper.selected))
     /\ helper.f \in {"getRegionCounts", "getAllRegionCounts"}
          => \A r \in CountedRegions :
               /\ helper.result.v[r] = Len(matching(helper.arg.items, JStr(r)))
               /\ countJobsByRegion(helper.arg, JStr(r))
                    = Value(JNum(helper.result.v[r]))
               /\ countJobsByRegion_runtimeFix(helper.arg, JStr(r))
                    = Value(JNum(helper.result.v[r]))

====
